---------------------------- MODULE Spec2Model ----------------------------
(***************************************************************************)
(* A model of the NERC practice toolkit:                                   *)
(*   part2_train_custom_nerc/data_conversion.py   (BIO converter, overlap  *)
(*                                                 resolver)               *)
(*   part2_train_custom_nerc/evaluation.py        (precision/recall/F)     *)
(*   part2_train_custom_nerc/spacy_nerc_training.py (training loop, save)  *)
(*   part1_use_a_nerc/run_nerc.py                 (analyze)                *)
(*                                                                         *)
(* Python strings are TLA+ strings; Python lists are sequences; a Python   *)
(* tuple (a, b, c) is the sequence <<a, b, c>>; the dict {"entities": x}   *)
(* is the record [entities |-> x].  Python floats are modelled as exact    *)
(* rationals <<numerator, denominator>> in lowest terms.                   *)
(***************************************************************************)
EXTENDS Integers, Sequences, FiniteSets, TLC

VARIABLES
    \* ---- data_conversion.py ----
    lines,              \* argument of load_spacy_train_data_from_bio_dataset
    conv_pc,            \* "call" | "returned" | "raised"
    train_instances,    \* the value returned (<<>> until it returns)
    \* ---- remove_overlapping_entities called on its own ----
    instances,          \* argument, as it was when the call was made
    resolved,           \* the list returned (the argument, updated in place)
    res_pc,             \* "call" | "returned"
    \* ---- evaluation.py ----
    test_instances,     \* argument of evaluate
    nlp,                \* argument of evaluate: text |-> the .ents of nlp(text)
    scores,             \* the EvaluationScores returned
    eval_pc,            \* "call" | "returned"
    \* ---- spacy_nerc_training.py ----
    output_model_dir,   \* argument of train_nerc_model: a path or "None"
    num_epochs,         \* argument of train_nerc_model
    train_size,         \* len(train_data)
    tr_pc,              \* where train_nerc_model is
    epoch,              \* the loop variable of "for epoch in ..."
    batches_left,       \* the batches of this epoch not yet given to nlp.update
    best_fscore,
    current_fscore,
    tr_log,             \* history: the calls made so far, in order
    \* ---- run_nerc.py ----
    language,           \* argument of analyze
    custom_model,       \* argument of analyze: a path or "None"
    output_path,        \* argument of analyze: a path or "None"
    run_pc,             \* where analyze is
    run_error,          \* what analyze raised ("none" if nothing)
    content_read,       \* history: the input file has been opened and read
    \* ---- the file system both programs write to ----
    disk                \* the set of the paths that exist

convVars == <<lines, conv_pc, train_instances>>
resVars  == <<instances, resolved, res_pc>>
evalVars == <<test_instances, nlp, scores, eval_pc>>
trainVars == <<output_model_dir, num_epochs, train_size, tr_pc, epoch,
               batches_left, best_fscore, current_fscore, tr_log>>
runVars == <<language, custom_model, output_path, run_pc, run_error,
             content_read>>
vars == <<convVars, resVars, evalVars, trainVars, runVars, disk>>

(***************************************************************************)
(* Bounds of the model.                                                    *)
(***************************************************************************)
MaxLines == 5       \* longest input (in lines) given to the converter
MaxEntities == 3    \* longest entity list given to the resolver
MaxDevInstances == 2    \* longest list of test instances given to evaluate
MaxEpochs == 4      \* largest num_epochs given to train_nerc_model

(***************************************************************************)
(* Python string primitives.                                               *)
(***************************************************************************)
Char(s, i) == SubSeq(s, i, i)

\* str.isspace of one character (the whitespace str.strip and \s know).
IsSpace(c) == c \in {" ", "\t", "\n", "\r"}

\* one character of the regular expression class [-\w]
IsTagChar(c) ==
    c \in {"-", "_",
           "a","b","c","d","e","f","g","h","i","j","k","l","m",
           "n","o","p","q","r","s","t","u","v","w","x","y","z",
           "A","B","C","D","E","F","G","H","I","J","K","L","M",
           "N","O","P","Q","R","S","T","U","V","W","X","Y","Z",
           "0","1","2","3","4","5","6","7","8","9"}

\* one character matched by . (no re.DOTALL: anything but a newline)
IsDot(c) == c /= "\n"

RECURSIVE LStrip(_)
LStrip(s) ==
    IF Len(s) > 0 /\ IsSpace(Char(s, 1)) THEN LStrip(SubSeq(s, 2, Len(s))) ELSE s

RECURSIVE RStrip(_)
RStrip(s) ==
    IF Len(s) > 0 /\ IsSpace(Char(s, Len(s)))
    THEN RStrip(SubSeq(s, 1, Len(s) - 1)) ELSE s

\* str.strip()
Strip(s) == RStrip(LStrip(s))

\* sub in s
Contains(s, sub) ==
    \E i \in 1..(Len(s) - Len(sub) + 1) : SubSeq(s, i, i + Len(sub) - 1) = sub

\* s.startswith(p)
StartsWith(s, p) == Len(s) >= Len(p) /\ SubSeq(s, 1, Len(p)) = p

\* s.split(sep): the list of the pieces between the occurrences of sep
RECURSIVE Split(_, _)
Split(s, sep) ==
    LET hits == {i \in 1..(Len(s) - Len(sep) + 1) :
                    SubSeq(s, i, i + Len(sep) - 1) = sep}
    IN IF hits = {} THEN <<s>>
       ELSE LET i == CHOOSE h \in hits : \A g \in hits : h <= g
            IN <<SubSeq(s, 1, i - 1)>> \o Split(SubSeq(s, i + Len(sep), Len(s)), sep)


(***************************************************************************)
(* re.sub(r'(.+)\s+([-\w]+)', r'\1###\2', s)                               *)
(*                                                                         *)
(* A match that starts at p is: s[p..k] of . characters (k >= p), then     *)
(* s[k+1..m] of \s characters (m > k), then a run of [-\w] characters      *)
(* from m+1.  Every quantifier is greedy, so the engine takes the largest  *)
(* k that leaves a match, and the [-\w]+ run is maximal.  re.sub replaces  *)
(* the leftmost match and goes on with the text after it.                  *)
(***************************************************************************)
AllDot(s, a, b)   == \A i \in a..b : IsDot(Char(s, i))
AllSpace(s, a, b) == \A i \in a..b : IsSpace(Char(s, i))

\* the <<k, m>> of the matches that start at p
MatchesAt(s, p) ==
    {km \in (p..Len(s)) \X (p..Len(s)) :
        /\ km[1] < km[2]
        /\ km[2] < Len(s)
        /\ AllDot(s, p, km[1])
        /\ AllSpace(s, km[1] + 1, km[2])
        /\ IsTagChar(Char(s, km[2] + 1))}

\* the index of the last character of the maximal [-\w] run that starts at i
RECURSIVE TagRunEnd(_, _)
TagRunEnd(s, i) ==
    IF i < Len(s) /\ IsTagChar(Char(s, i + 1)) THEN TagRunEnd(s, i + 1) ELSE i

RECURSIVE ReSub(_)
ReSub(s) ==
    LET starts == {p \in 1..Len(s) : MatchesAt(s, p) /= {}}
    IN IF starts = {} THEN s
       ELSE LET p  == CHOOSE q \in starts : \A r \in starts : q <= r
                km == CHOOSE x \in MatchesAt(s, p) :
                          \A y \in MatchesAt(s, p) : y[1] <= x[1]
                t  == TagRunEnd(s, km[2] + 1)
            IN SubSeq(s, 1, p - 1) \o SubSeq(s, p, km[1]) \o "###"
                 \o SubSeq(s, km[2] + 1, t) \o ReSub(SubSeq(s, t + 1, Len(s)))

(***************************************************************************)
(* remove_overlapping_entities                                             *)
(***************************************************************************)
\* instance[1]['entities']
Entities(inst) == inst[2].entities

\* the body of "for i in range(len(entities))", from index i on (0-based as
\* in the code); the "i += 1" of the code rebinds the loop variable only
\* until range() hands out the next index, so it changes nothing.
\* (a faulty variant, which C4 tells apart: the comparison the other way round)
RECURSIVE RemainingEntitiesFlipped(_, _, _)
RemainingEntitiesFlipped(entities, i, remaining_entities) ==
    IF i >= Len(entities) THEN remaining_entities
    ELSE IF i >= Len(entities) - 1
         THEN RemainingEntitiesFlipped(entities, i + 1, remaining_entities)
         ELSE IF entities[i + 1][2] > entities[i + 2][1]
              THEN RemainingEntitiesFlipped(entities, i + 1,
                                  Append(remaining_entities, entities[i + 1]))
              ELSE RemainingEntitiesFlipped(entities, i + 1, remaining_entities)

RECURSIVE RemainingEntities(_, _, _)
RemainingEntities(entities, i, remaining_entities) ==
    IF i >= Len(entities) THEN remaining_entities
    ELSE IF i >= Len(entities) - 1
         THEN RemainingEntities(entities, i + 1, remaining_entities)
         ELSE LET ent1 == entities[i + 1]
                  ent2 == entities[i + 2]
              IN IF ent1[2] < ent2[1]
                 THEN RemainingEntities(entities, i + 1,
                                        Append(remaining_entities, ent1))
                 ELSE RemainingEntities(entities, i + 1, remaining_entities)

\* (a faulty variant, which C3 tells apart: the last entity of a list is kept too)
remove_overlapping_entities_keep_last(insts) ==
    [n \in 1..Len(insts) |->
        LET es == insts[n][2].entities
        IN <<insts[n][1],
             [entities |-> RemainingEntities(es, 0, <<>>)
                             \o (IF Len(es) > 0 THEN <<es[Len(es)]>> ELSE <<>>)]>>]

\* (a faulty variant, which C11 tells apart: a list of one entity is left as it is)
remove_overlapping_entities_keep_single(insts) ==
    [n \in 1..Len(insts) |->
        LET es == insts[n][2].entities
        IN <<insts[n][1],
             [entities |-> IF Len(es) < 2 THEN es
                           ELSE RemainingEntities(es, 0, <<>>)]>>]

remove_overlapping_entities(insts) ==
    [n \in 1..Len(insts) |->
        <<insts[n][1],
          [entities |-> RemainingEntities(insts[n][2].entities, 0, <<>>)]>>]

(***************************************************************************)
(* load_spacy_train_data_from_bio_dataset                                  *)
(***************************************************************************)
\* the locals of the function before the loop
ConvInit ==
    [train_instances |-> <<>>,
     train_instance_text |-> "",
     train_instance_annotations |-> <<>>,
     current_entity |-> "",
     current_tag |-> "",
     current_entity_offset |-> 0,
     raised |-> "none"]

\* one iteration of "for i, line in enumerate(lines)"
ProcessLine(st, line) ==
    IF Len(Strip(line)) = 0 /\ Len(Strip(st.train_instance_text)) > 0
    THEN [st EXCEPT
            !.train_instances =
                Append(@, <<Strip(st.train_instance_text),
                            [entities |-> st.train_instance_annotations]>>),
            !.train_instance_text = "",
            !.train_instance_annotations = <<>>]
    ELSE IF Len(Strip(line)) = 0
            \/ (Len(Strip(line)) > 0 /\ ~Contains(Strip(line), " "))
    THEN st
    ELSE
    LET res == ReSub(Strip(line))
        current_offset == Len(st.train_instance_text)
        parts == Split(Strip(res), "###")
    IN IF Len(parts) /= 2
       THEN [st EXCEPT !.raised = "ValueError"]     \* token, tag = ... unpacking
       ELSE
       LET token == parts[1]
           tag0  == parts[2]
           text  == st.train_instance_text \o token \o " "
           tag   == IF Strip(tag0) = "" THEN "O" ELSE tag0
           stored ==
               IF Len(Strip(st.current_entity)) > 0
               THEN Append(st.train_instance_annotations,
                           <<st.current_entity_offset,
                             st.current_entity_offset + Len(st.current_entity),
                             st.current_tag>>)
               ELSE st.train_instance_annotations
       IN IF StartsWith(tag, "B")
          THEN IF Len(Split(tag, "-")) < 2
               THEN [st EXCEPT !.raised = "IndexError"]    \* tag.split('-')[1]
               ELSE [st EXCEPT
                       !.train_instance_text = text,
                       !.train_instance_annotations = stored,
                       !.current_entity = Strip(token),
                       !.current_tag = Strip(Split(tag, "-")[2]),
                       !.current_entity_offset = current_offset]
          ELSE IF StartsWith(tag, "I")
          THEN [st EXCEPT
                  !.train_instance_text = text,
                  !.current_entity = @ \o " " \o token]
          ELSE IF StartsWith(tag, "O")
          THEN IF Len(Strip(st.current_entity)) > 0
               THEN [st EXCEPT
                       !.train_instance_text = text,
                       !.train_instance_annotations = stored,
                       !.current_entity = "",
                       !.current_tag = ""]
               ELSE [st EXCEPT !.train_instance_text = text]
          ELSE [st EXCEPT !.raised = "Exception"]   \* raise Exception("ERROR HERE...")

\* the whole loop: the locals after the lines from index i on
RECURSIVE ConvLoop(_, _, _)
ConvLoop(st, ls, i) ==
    IF i > Len(ls) \/ st.raised /= "none" THEN st
    ELSE ConvLoop(ProcessLine(st, ls[i]), ls, i + 1)

\* (a faulty variant, which C7 tells apart: the instances are returned as the loop
\* left them, remove_overlapping_entities is not called)
load_without_resolver(ls) ==
    LET st == ConvLoop(ConvInit, ls, 1)
    IN IF st.raised /= "none"
       THEN [raised |-> st.raised, value |-> <<>>]
       ELSE [raised |-> "none", value |-> st.train_instances]

\* the outcome of the call: what was raised, or the list returned
load_spacy_train_data_from_bio_dataset(ls) ==
    LET st == ConvLoop(ConvInit, ls, 1)
    IN IF st.raised /= "none"
       THEN [raised |-> st.raised, value |-> <<>>]
       ELSE [raised |-> "none",
             value |-> remove_overlapping_entities(st.train_instances)]

(***************************************************************************)
(* Inputs.                                                                 *)
(***************************************************************************)
\* every sequence over S of length 0..n
SeqsUpTo(S, n) == UNION {[1..k -> S] : k \in 0..n}

\* the lines the bounded inputs of the converter are made of
LinePool == {"", "a O", "b B-P", "c I-P", "dd B-Q"}

\* whole inputs with the lines the pool leaves out: the sentence of the
\* docstring's kind, lines as readlines() gives them, a line with no tag,
\* tags outside B/I/O, a B tag with no label, a token with spaces in it,
\* a sentence that ends inside an entity and is followed by another sentence
ConvFixtures ==
    { <<"Shaka B-PER", "Khan I-PER", "is O", "here O">>,
      <<"Shaka B-PER", "Khan I-PER", "is O", "here O", "">>,
      <<"Shaka B-PER\n", "Khan I-PER\n", "is O\n", "here O\n", "\n">>,
      <<"I O", "like O", "London B-LOC", "and O", "Berlin B-LOC", ". O", "">>,
      <<"a O", "O", "b B-P", "c O", "">>,
      <<"a O", "b X-P", "c O", "">>,
      <<"a O", "b B", "c O", "">>,
      <<"a O", "b .", "">>,
      <<"New York B-LOC", "is O", "big O", "", "">>,
      <<"a  B-P", "b \t I-P", "c O", "d O", "">>,
      <<"a\tB-P", "c O", "">>,
      <<"b B-P", "", "a O", "dd B-Q", "a O", "">> }

ConvInputs == SeqsUpTo(LinePool, MaxLines) \cup ConvFixtures

\* the entities the bounded inputs of the resolver are made of
EntityPool ==
    { <<0, 5, "A">>, <<6, 10, "B">>, <<5, 10, "B">>, <<3, 8, "A">>, <<9, 11, "B">> }

ResInstances ==
    { <<"hello world", [entities |-> es]>> : es \in SeqsUpTo(EntityPool, MaxEntities) }

\* one instance, or two (the second with a short list), or none
ResInputs ==
    {<<>>} \cup { <<a>> : a \in ResInstances }
           \cup { <<a, b>> : a \in ResInstances,
                             b \in { <<"hello world", [entities |-> es]>> :
                                       es \in SeqsUpTo(EntityPool, 1) } }

(***************************************************************************)
(* The converter called on a list of lines.                                *)
(***************************************************************************)
ConvIdle == lines = <<>> /\ conv_pc = "idle" /\ train_instances = <<>>
ResIdle  == instances = <<>> /\ resolved = <<>> /\ res_pc = "idle"
EvalIdle ==
    test_instances = <<>> /\ nlp = <<>> /\ scores = <<>> /\ eval_pc = "idle"
TrainIdle ==
    /\ output_model_dir = "None" /\ num_epochs = 0 /\ train_size = 0
    /\ tr_pc = "idle" /\ epoch = 0 /\ batches_left = 0
    /\ best_fscore = <<0, 1>> /\ current_fscore = <<0, 1>> /\ tr_log = <<>>
RunIdle ==
    /\ language = "" /\ custom_model = "None" /\ output_path = "None"
    /\ run_pc = "idle" /\ run_error = "none" /\ content_read = FALSE
DiskIdle == disk = {}

InitConv ==
    /\ lines \in ConvInputs
    /\ conv_pc = "call"
    /\ train_instances = <<>>
    /\ ResIdle /\ EvalIdle /\ TrainIdle /\ RunIdle /\ DiskIdle

\* results = load_spacy_train_data_from_bio_dataset(lines)
Load ==
    /\ conv_pc = "call"
    /\ LET r == load_spacy_train_data_from_bio_dataset(lines)
       IN /\ conv_pc' = IF r.raised = "none" THEN "returned" ELSE "raised"
          /\ train_instances' = r.value
    /\ UNCHANGED <<lines, resVars, evalVars, trainVars, runVars, disk>>

NextConv == Load

SpecConv == InitConv /\ [][NextConv]_vars

(***************************************************************************)
(* The resolver called on a list of instances.                             *)
(***************************************************************************)
InitRes ==
    /\ instances \in ResInputs
    /\ resolved = <<>>
    /\ res_pc = "call"
    /\ ConvIdle /\ EvalIdle /\ TrainIdle /\ RunIdle /\ DiskIdle

\* instances = remove_overlapping_entities(instances)
Resolve ==
    /\ res_pc = "call"
    /\ resolved' = remove_overlapping_entities(instances)
    /\ res_pc' = "returned"
    /\ UNCHANGED <<instances, convVars, evalVars, trainVars, runVars, disk>>

NextRes == Resolve

SpecRes == InitRes /\ [][NextRes]_vars

(***************************************************************************)
(* evaluation.py.  A float is the exact rational <<n, d>>, d > 0, in       *)
(* lowest terms; 0 is <<0, 1>>.                                            *)
(***************************************************************************)
RECURSIVE GCD(_, _)
GCD(a, b) == IF b = 0 THEN a ELSE GCD(b, a % b)

Rat(n, d) == IF n = 0 THEN <<0, 1>> ELSE <<n \div GCD(n, d), d \div GCD(n, d)>>
RatAdd(x, y) == Rat(x[1] * y[2] + y[1] * x[2], x[2] * y[2])
RatMul(x, y) == Rat(x[1] * y[1], x[2] * y[2])
RatDiv(x, y) == Rat(x[1] * y[2], x[2] * y[1])
RatLess(x, y) == x[1] * y[2] < y[1] * x[2]
Zero == <<0, 1>>

\* s[a:b] for a, b >= 0
Slice(s, a, b) == SubSeq(s, a + 1, IF b < Len(s) THEN b ELSE Len(s))

\* a predicted entity is the span <<start, end, label>> of the document:
\* x.text is the text of the span, x.label_ its label
convert_predictions_to_str_set(text, predictions) ==
    { Slice(text, x[1], x[2]) \o "_" \o x[3] : x \in predictions }

convert_gold_to_str_set(test_instance) ==
    { Slice(test_instance[1], x[1], x[2]) \o "_" \o x[3] :
        x \in { Entities(test_instance)[k] :
                  k \in 1..Len(Entities(test_instance)) } }

\* "for pred in predictions_set": the counters after the elements of todo
RECURSIVE CountPredictions(_, _, _, _)
CountPredictions(todo, golds_set, tp, fp) ==
    IF todo = {} THEN <<tp, fp>>
    ELSE LET pred == CHOOSE x \in todo : TRUE
         IN IF pred \in golds_set
            THEN CountPredictions(todo \ {pred}, golds_set, tp + 1, fp)
            ELSE CountPredictions(todo \ {pred}, golds_set, tp, fp + 1)

\* "for gold in golds_set"
RECURSIVE CountGolds(_, _, _)
CountGolds(todo, predictions_set, fn) ==
    IF todo = {} THEN fn
    ELSE LET gold == CHOOSE x \in todo : TRUE
         IN IF gold \notin predictions_set
            THEN CountGolds(todo \ {gold}, predictions_set, fn + 1)
            ELSE CountGolds(todo \ {gold}, predictions_set, fn)

\* (a faulty variant, which C5 tells apart: every gold label counts as missed)
compare_counting_every_gold(predictions_set, golds_set) ==
    LET c == CountPredictions(predictions_set, golds_set, 0, 0)
    IN <<c[1], c[2], Cardinality(golds_set)>>

compare_predictions_and_gold_labels(predictions_set, golds_set) ==
    LET c == CountPredictions(predictions_set, golds_set, 0, 0)
    IN <<c[1], c[2], CountGolds(golds_set, predictions_set, 0)>>

\* "for text, golds in test_instances": the counters after the instances
\* from index k on
RECURSIVE Overall(_, _, _, _)
Overall(insts, model, k, acc) ==
    IF k > Len(insts) THEN acc
    ELSE LET c == compare_predictions_and_gold_labels(
                    convert_predictions_to_str_set(insts[k][1], model[insts[k][1]]),
                    convert_gold_to_str_set(insts[k]))
         IN Overall(insts, model, k + 1,
                    <<acc[1] + c[1], acc[2] + c[2], acc[3] + c[3]>>)

\* the metrics evaluate computes from the three counters
EvaluationScores(overall_tp, overall_fp, overall_fn) ==
    LET precision == IF overall_tp + overall_fp > 0
                     THEN Rat(overall_tp, overall_tp + overall_fp) ELSE Zero
        recall    == IF overall_tp + overall_fn > 0
                     THEN Rat(overall_tp, overall_tp + overall_fn) ELSE Zero
        fscore    == IF RatLess(Zero, RatAdd(precision, recall))
                     THEN RatDiv(RatMul(<<2, 1>>, RatMul(precision, recall)),
                                 RatAdd(precision, recall))
                     ELSE Zero
    IN [precision |-> precision, recall |-> recall, fscore |-> fscore]

evaluate(insts, model) ==
    LET o == Overall(insts, model, 1, <<0, 0, 0>>)
    IN EvaluationScores(o[1], o[2], o[3])

(***************************************************************************)
(* evaluate called on a list of test instances and a model.                *)
(***************************************************************************)
\* the texts of the test instances and, for each, the entities a gold list
\* or a prediction is made of
DevTexts == {"Paris Berlin", "a a"}
DevEntities(text) ==
    IF text = "Paris Berlin"
    THEN { <<0, 5, "LOC">>, <<6, 12, "LOC">>, <<0, 5, "PER">> }
    ELSE { <<0, 1, "X">>, <<2, 3, "X">> }

\* entity lists in the order of the text, one entity per span
GoldLists(text) ==
    { es \in SeqsUpTo(DevEntities(text), 2) :
        \A k \in 1..(Len(es) - 1) : es[k][2] <= es[k + 1][1] }

DevInstancePool ==
    UNION { { <<text, [entities |-> es]>> : es \in GoldLists(text) } :
            text \in DevTexts }

\* doc.ents: spans that do not overlap
EntSets(text) ==
    { P \in SUBSET DevEntities(text) :
        \A x, y \in P : x /= y => (x[2] <= y[1] \/ y[2] <= x[1]) }

NlpPool == { f \in [DevTexts -> UNION {EntSets(t) : t \in DevTexts}] :
                \A t \in DevTexts : f[t] \in EntSets(t) }

InitEval ==
    /\ test_instances \in SeqsUpTo(DevInstancePool, MaxDevInstances)
    /\ nlp \in NlpPool
    /\ scores = <<>>
    /\ eval_pc = "call"
    /\ ConvIdle /\ ResIdle /\ TrainIdle /\ RunIdle /\ DiskIdle

\* scores = evaluate(test_instances, nlp)
Evaluate ==
    /\ eval_pc = "call"
    /\ scores' = evaluate(test_instances, nlp)
    /\ eval_pc' = "returned"
    /\ UNCHANGED <<test_instances, nlp, convVars, resVars, trainVars, runVars,
                   disk>>

NextEval == Evaluate

SpecEval == InitEval /\ [][NextEval]_vars

(***************************************************************************)
(* spacy_nerc_training.py                                                  *)
(***************************************************************************)
\* size=32 of minibatch(train_data, size=32)
BatchSize == 32

\* len(list(minibatch(train_data, size=32)))
NumBatches(n) == (n + BatchSize - 1) \div BatchSize

\* a path is the sequence of its parts.  os.path.join(output_model_dir_path,
\* f'{model_name}_epoch{epoch}_fscore{current_fscore:1.4f}'): the directory a
\* model is written to, and the archive made of it
ModelPath(dir, e, fscore) == <<dir, <<"nerc_model", e, fscore>> >>
Dir(path) == <<"dir", path>>
Zip(path) == <<"zip", path>>

\* _save_model(output_model_dir_path, model_name, nlp, optimizer) on the
\* file system d: every way the call can end, as [raised, disk].  A call of
\* the operating system may fail (makedirs, to_disk, make_archive, rmtree);
\* the calls before it have then taken effect.
_save_model(output_model_dir_path, model_path, d) ==
    IF output_model_dir_path /= "None"
    THEN LET d1 == d \cup {Dir(<<output_model_dir_path>>)}      \* os.makedirs
             d2 == d1 \cup {Dir(model_path)}                     \* nlp.to_disk
             d3 == d2 \cup {Zip(model_path)}                     \* make_archive
             d4 == d3 \ {Dir(model_path)}                        \* rmtree
         IN { [raised |-> "none", disk |-> d4] }
              \cup (IF Dir(<<output_model_dir_path>>) \notin d
                    THEN { [raised |-> "OSError", disk |-> d] } ELSE {})
              \cup { [raised |-> "OSError", disk |-> x] : x \in {d1, d2, d3} }
    ELSE { [raised |-> "Exception", disk |-> d] }

\* (a faulty variant, which C1 tells apart: a tie is taken for an improvement)
IsNewBestOrTie(current, best) == ~RatLess(current, best)

\* current_fscore > best_fscore
IsNewBest(current, best) == RatLess(best, current)

\* what evaluate(dev_data, nlp) can count on the dev data after an epoch:
\* <<overall_tp, overall_fp, overall_fn>>, giving the F-scores 0, 0.4, 0.5,
\* 0.6 and 1
DevOutcomes == { <<0, 0, 0>>, <<1, 2, 1>>, <<1, 1, 1>>, <<3, 2, 2>>, <<1, 0, 0>> }

TrainSizes == {0, 32, 33}

InitTrain ==
    /\ output_model_dir \in {"None", "models"}
    /\ num_epochs \in 0..MaxEpochs
    /\ train_size \in TrainSizes
    /\ tr_pc = "call"
    /\ epoch = 0
    /\ batches_left = 0
    /\ best_fscore = Zero
    /\ current_fscore = Zero
    /\ tr_log = <<>>
    /\ disk \in {{}, {Dir(<<"models">>)}}
    /\ ConvIdle /\ ResIdle /\ EvalIdle /\ RunIdle

trainRest == <<convVars, resVars, evalVars, runVars>>

\* nlp = _instantiate_model_for_training(...), nlp.begin_training(),
\* best_fscore = 0.0
BeginTraining ==
    /\ tr_pc = "call"
    /\ tr_pc' = "epoch"
    /\ best_fscore' = Zero
    /\ epoch' = 0
    /\ tr_log' = Append(tr_log, <<"begin_training">>)
    /\ UNCHANGED <<output_model_dir, num_epochs, train_size, batches_left,
                   current_fscore, disk, trainRest>>

\* the head of "for epoch in epochs_progress_bar", random.shuffle and
\* minibatch
StartEpoch ==
    /\ tr_pc = "epoch"
    /\ epoch < num_epochs
    /\ batches_left' = NumBatches(train_size)
    /\ tr_log' = tr_log \o << <<"shuffle", epoch>>, <<"minibatch", epoch>> >>
    /\ tr_pc' = "batches"
    /\ UNCHANGED <<output_model_dir, num_epochs, train_size, epoch,
                   best_fscore, current_fscore, disk, trainRest>>

\* one turn of "for batch in t": nlp.update
BatchUpdate ==
    /\ tr_pc = "batches"
    /\ batches_left > 0
    /\ batches_left' = batches_left - 1
    /\ tr_log' = Append(tr_log, <<"update", epoch>>)
    /\ UNCHANGED <<output_model_dir, num_epochs, train_size, tr_pc, epoch,
                   best_fscore, current_fscore, disk, trainRest>>

\* (a faulty variant, which C13 tells apart: the evaluation indented into
\* "for batch in t", so that it does not wait for the last batch)
EvaluateEpochInsideLoop ==
    /\ tr_pc = "batches"
    /\ \E o \in DevOutcomes :
          current_fscore' = EvaluationScores(o[1], o[2], o[3]).fscore
    /\ tr_log' = Append(tr_log, <<"evaluate", epoch, current_fscore'>>)
    /\ tr_pc' = "checkpoint"
    /\ UNCHANGED <<output_model_dir, num_epochs, train_size, epoch,
                   batches_left, best_fscore, disk, trainRest>>

\* scores = evaluate(dev_data, nlp); current_fscore = scores.fscore
EvaluateEpoch ==
    /\ tr_pc = "batches"
    /\ batches_left = 0
    /\ \E o \in DevOutcomes :
          current_fscore' = EvaluationScores(o[1], o[2], o[3]).fscore
    /\ tr_log' = Append(tr_log, <<"evaluate", epoch, current_fscore'>>)
    /\ tr_pc' = "checkpoint"
    /\ UNCHANGED <<output_model_dir, num_epochs, train_size, epoch,
                   batches_left, best_fscore, disk, trainRest>>

\* "if current_fscore > best_fscore: _save_model(...); best_fscore = ..."
\* and the step to the next epoch
MaybeCheckpoint ==
    /\ tr_pc = "checkpoint"
    /\ IF IsNewBest(current_fscore, best_fscore)
       THEN \E r \in _save_model(output_model_dir,
                                 ModelPath(output_model_dir, epoch, current_fscore),
                                 disk) :
               /\ disk' = r.disk
               /\ IF r.raised = "none"
                  THEN /\ best_fscore' = current_fscore
                       /\ tr_log' = Append(tr_log, <<"save", epoch, current_fscore>>)
                       /\ epoch' = epoch + 1
                       /\ tr_pc' = "epoch"
                  ELSE /\ tr_log' = Append(tr_log, <<"raise", r.raised>>)
                       /\ tr_pc' = "raised"
                       /\ UNCHANGED <<best_fscore, epoch>>
       ELSE /\ epoch' = epoch + 1
            /\ tr_pc' = "epoch"
            /\ UNCHANGED <<best_fscore, tr_log, disk>>
    /\ UNCHANGED <<output_model_dir, num_epochs, train_size, batches_left,
                   current_fscore, trainRest>>

\* the loop is over: train_nerc_model returns
FinishTraining ==
    /\ tr_pc = "epoch"
    /\ epoch >= num_epochs
    /\ tr_pc' = "done"
    /\ UNCHANGED <<output_model_dir, num_epochs, train_size, epoch,
                   batches_left, best_fscore, current_fscore, tr_log, disk,
                   trainRest>>

NextTrain ==
    \/ BeginTraining
    \/ StartEpoch
    \/ BatchUpdate
    \/ EvaluateEpoch
    \/ MaybeCheckpoint
    \/ FinishTraining

SpecTrain == InitTrain /\ [][NextTrain]_vars

\* the interpreter goes on to the next statement as long as there is one
SpecTrainFair == SpecTrain /\ WF_vars(NextTrain)

(***************************************************************************)
(* run_nerc.py                                                             *)
(***************************************************************************)
LANG_MODELS ==
    [l \in {"en", "fr", "es"} |->
        IF l = "en" THEN "en_core_web_sm"
        ELSE IF l = "fr" THEN "fr_core_news_sm" ELSE "es_core_news_sm"]

File(path) == <<"file", path>>

\* os.path.exists(path)
Exists(path, d) == \E kind \in {"file", "dir", "zip"} : <<kind, path>> \in d

\* s.endswith(suffix)
EndsWith(s, suffix) ==
    Len(s) >= Len(suffix) /\ SubSeq(s, Len(s) - Len(suffix) + 1, Len(s)) = suffix

\* file_path of analyze, and the HTML file written next to it
InputFile == "input.txt"
HtmlFile  == InputFile \o "._HIGHLIGHTED.html"

\* (a faulty variant, which C9 tells apart: a language that is not in LANG_MODELS
\* falls back to a default model instead of raising)
instantiate_default_model_with_fallback(lang) ==
    { [raised |-> "none"], [raised |-> "OSError"] }

\* instantiate_default_model(language): every way the call can end.
\* spacy.load raises OSError when the model is not installed.
instantiate_default_model(lang) ==
    IF lang \notin DOMAIN LANG_MODELS
    THEN { [raised |-> "Exception: language not valid"] }
    ELSE { [raised |-> "none"], [raised |-> "OSError"] }

\* load_custom_model(model_path) on the file system d: every way the call
\* can end, as [raised, disk].  unpack_archive raises when the archive is
\* not there and may fail on one that is; spacy.load may fail on what was
\* unpacked.  Nothing removes the directory the archive is unpacked into.
load_custom_model(model_path, d) ==
    LET model_zip_path ==
            IF EndsWith(model_path, ".zip") THEN model_path
            ELSE model_path \o ".zip"
        extract_dir == SubSeq(model_zip_path, 1, Len(model_zip_path) - 4)
        unpacked == d \cup {Dir(<<extract_dir>>)}
    IN IF ~Exists(<<model_zip_path>>, d)
       THEN { [raised |-> "ReadError", disk |-> d] }
       ELSE { [raised |-> "ReadError", disk |-> d],
              [raised |-> "ReadError", disk |-> unpacked],     \* unpack_archive
              [raised |-> "OSError", disk |-> unpacked],       \* spacy.load
              [raised |-> "none", disk |-> unpacked] }

Languages == {"en", "fr", "es", "de"}

InitRun ==
    /\ language \in Languages
    /\ custom_model \in {"None", "my_model", "my_model.zip"}
    /\ output_path \in {"None", "report.txt"}
    /\ run_pc = "call"
    /\ run_error = "none"
    /\ content_read = FALSE
    /\ disk \in SUBSET {File(<<InputFile>>), File(<<"my_model.zip">>)}
    /\ ConvIdle /\ ResIdle /\ EvalIdle /\ TrainIdle

runRest == <<convVars, resVars, evalVars, trainVars>>

\* "if not os.path.exists(file_path): raise Exception(...)"
CheckInput ==
    /\ run_pc = "call"
    /\ IF ~Exists(<<InputFile>>, disk)
       THEN run_pc' = "raised" /\ run_error' = "Exception: input file does not exist"
       ELSE run_pc' = "load" /\ run_error' = run_error
    /\ UNCHANGED <<language, custom_model, output_path, content_read, disk, runRest>>

\* "if custom_model: nlp = load_custom_model(custom_model)
\*  else: nlp = instantiate_default_model(language)"
LoadModel ==
    /\ run_pc = "load"
    /\ IF custom_model /= "None"
       THEN \E r \in load_custom_model(custom_model, disk) :
               /\ disk' = r.disk
               /\ run_error' = r.raised
               /\ run_pc' = IF r.raised = "none" THEN "read" ELSE "raised"
       ELSE \E r \in instantiate_default_model(language) :
               /\ disk' = disk
               /\ run_error' = r.raised
               /\ run_pc' = IF r.raised = "none" THEN "read" ELSE "raised"
    /\ UNCHANGED <<language, custom_model, output_path, content_read, runRest>>

\* "with open(file_path, 'r', encoding='utf-8') as f: content = f.read()"
ReadInput ==
    /\ run_pc = "read"
    /\ content_read' = TRUE
    /\ run_pc' = "report"
    /\ UNCHANGED <<language, custom_model, output_path, run_error, disk, runRest>>

\* doc = nlp(content), the counts, the messages printed and, with an
\* output_path, written to it
Report ==
    /\ run_pc = "report"
    /\ disk' = IF output_path /= "None" THEN disk \cup {File(<<output_path>>)}
               ELSE disk
    /\ run_pc' = "html"
    /\ UNCHANGED <<language, custom_model, output_path, run_error,
                   content_read, runRest>>

\* displacy.render and the HTML file; analyze returns
WriteHtml ==
    /\ run_pc = "html"
    /\ disk' = disk \cup {File(<<HtmlFile>>)}
    /\ run_pc' = "returned"
    /\ UNCHANGED <<language, custom_model, output_path, run_error,
                   content_read, runRest>>

NextRun ==
    \/ CheckInput
    \/ LoadModel
    \/ ReadInput
    \/ Report
    \/ WriteHtml

SpecRun == InitRun /\ [][NextRun]_vars

\* one invocation of either program: run_nerc.py or run_nerc_train.py
SpecTools == (InitRun \/ InitTrain) /\ [][NextRun \/ NextTrain]_vars

(***************************************************************************)
(* Claims about the converter and the resolver.                            *)
(***************************************************************************)
\* the pieces [token, tag] the converter cuts a line into
LineParts(line) == Split(Strip(ReSub(Strip(line))), "###")
IsBlankLine(line) == Len(Strip(line)) = 0
HasTag(line, prefix) ==
    /\ ~IsBlankLine(line)
    /\ Contains(Strip(line), " ")
    /\ Len(LineParts(line)) = 2
    /\ StartsWith(LineParts(line)[2], prefix)
LabelOf(line) == Split(LineParts(line)[2], "-")[2]

\* a BIO input: every line is blank or "token O", "token B-<LABEL>" or
\* "token I-<LABEL>", and an I- line follows a B- or I- line directly
WellFormed(ls) ==
    \A i \in 1..Len(ls) :
        \/ IsBlankLine(ls[i])
        \/ /\ Contains(Strip(ls[i]), " ")
           /\ Len(LineParts(ls[i])) = 2
           /\ \/ LineParts(ls[i])[2] = "O"
              \/ HasTag(ls[i], "B-") /\ Len(LineParts(ls[i])[2]) > 2
              \/ /\ HasTag(ls[i], "I-") /\ Len(LineParts(ls[i])[2]) > 2
                 /\ i > 1
                 /\ HasTag(ls[i - 1], "B-") \/ HasTag(ls[i - 1], "I-")

\* line i starts an entity that no O and no B- closes before the blank line
\* that ends its sentence, or before the end of the input
OpenAtBoundary(ls, i) ==
    /\ HasTag(ls[i], "B-")
    /\ \E j \in (i + 1)..(Len(ls) + 1) :
          /\ j = Len(ls) + 1 \/ IsBlankLine(ls[j])
          /\ \A k \in (i + 1)..(j - 1) : HasTag(ls[k], "I-")

ShakaLines == <<"Shaka B-PER", "Khan I-PER", "is O", "here O">>

\* C2: the converter applied to exactly the four lines of the Shaka Khan
\* sentence returns one instance, "Shaka Khan is here" with [(0, 10, "PER")].
C2_RoundTrip ==
    (lines = ShakaLines /\ conv_pc /= "call")
        => /\ conv_pc = "returned"
           /\ train_instances =
                << <<"Shaka Khan is here", [entities |-> << <<0, 10, "PER">> >>]>> >>

\* C3: for a well-formed BIO input, every entity (start, end, label) of every
\* returned instance has 0 <= start < end <= len(text) of its instance.
C3_SpansInsideText ==
    (conv_pc = "returned" /\ WellFormed(lines))
        => \A n \in 1..Len(train_instances) :
             \A e \in 1..Len(Entities(train_instances[n])) :
                LET ent == Entities(train_instances[n])[e]
                IN 0 <= ent[1] /\ ent[1] < ent[2]
                   /\ ent[2] <= Len(train_instances[n][1])

\* a well-formed input with a sentence that ends inside an entity, for which
\* an instance with an entity is returned
C3_Witness ==
    /\ conv_pc = "returned"
    /\ WellFormed(lines)
    /\ \E i \in 1..(Len(lines) - 1) :
          OpenAtBoundary(lines, i) /\ \E j \in (i + 1)..Len(lines) : IsBlankLine(lines[j])
    /\ \E n \in 1..Len(train_instances) : Len(Entities(train_instances[n])) > 0

QuirkInput == << <<"hello world", [entities |-> << <<0, 5, "A">>, <<6, 10, "B">> >>]>> >>

\* C4 as stated: the resolver leaves the instance with entities
\* [(0,5,'A'), (6,10,'B')] with the empty entity list.
C4_ReturnsEmpty ==
    (res_pc = "returned" /\ instances = QuirkInput)
        => Entities(resolved[1]) = <<>>

\* C4 as amended: the resolver leaves that instance with [(0,5,'A')]: the
\* first entity is kept, the last one is dropped.
C4_DropsLastOnly ==
    (res_pc = "returned" /\ instances = QuirkInput)
        => Entities(resolved[1]) = << <<0, 5, "A">> >>

C4_Witness == res_pc = "returned" /\ instances = QuirkInput

\* C7: in every returned instance, of any two distinct entities one ends at
\* or before the offset where the other starts.
C7_NoOverlap ==
    conv_pc = "returned"
        => \A n \in 1..Len(train_instances) :
             LET es == Entities(train_instances[n])
             IN \A a, b \in 1..Len(es) :
                   a /= b => (es[a][2] <= es[b][1] \/ es[b][2] <= es[a][1])

\* an instance is returned with two entities
C7_Witness ==
    /\ conv_pc = "returned"
    /\ \E n \in 1..Len(train_instances) : Len(Entities(train_instances[n])) >= 2

\* C10: an entity still open at a sentence boundary or at the end of the input
\* is in the entity list of no returned instance.  Stated for the entities
\* whose label no other B- line of the input carries, so that an entity with
\* that label in the output can only be this one.
C10_OpenEntityDiscarded ==
    conv_pc = "returned"
        => \A i \in 1..Len(lines) :
             ( /\ OpenAtBoundary(lines, i)
               /\ \A k \in 1..Len(lines) :
                     (k /= i /\ HasTag(lines[k], "B-"))
                        => LabelOf(lines[k]) /= LabelOf(lines[i]) )
             => \A n \in 1..Len(train_instances) :
                  \A e \in 1..Len(Entities(train_instances[n])) :
                     Entities(train_instances[n])[e][3] /= LabelOf(lines[i])

(***************************************************************************)
(* Claims about the evaluator.                                             *)
(***************************************************************************)
\* the per-instance sets and the counts summed over the instances
PredictedSet(k) ==
    convert_predictions_to_str_set(test_instances[k][1], nlp[test_instances[k][1]])
GoldSet(k) == convert_gold_to_str_set(test_instances[k])
RECURSIVE SumOver(_, _)
SumOver(F(_), k) == IF k = 0 THEN 0 ELSE F(k) + SumOver(F, k - 1)
TpOf(k) == Cardinality(PredictedSet(k) \cap GoldSet(k))
FpOf(k) == Cardinality(PredictedSet(k) \ GoldSet(k))
FnOf(k) == Cardinality(GoldSet(k) \ PredictedSet(k))
TotalTp == SumOver(TpOf, Len(test_instances))
TotalFp == SumOver(FpOf, Len(test_instances))
TotalFn == SumOver(FnOf, Len(test_instances))

\* the rational x is the quotient n / d, or 0 when d = 0
IsQuotient(x, n, d) ==
    IF d = 0 THEN x[1] = 0 ELSE x[2] > 0 /\ x[1] * d = n * x[2]

ParisInstance ==
    <<"Paris Berlin", [entities |-> << <<0, 5, "LOC">>, <<6, 12, "LOC">> >>]>>

\* C5: evaluate returns precision = tp/(tp+fp), recall = tp/(tp+fn) and
\* fscore = 2*precision*recall/(precision+recall), each 0 when its
\* denominator is 0, for tp, fp, fn summed over the instances from the
\* comparison of the predicted and the gold '<surface>_<label>' sets;
\* {Paris_LOC} against {Paris_LOC, Berlin_LOC} gives 1, 1/2 and 2/3, and
\* empty predictions with empty gold give 0, 0, 0.
C5_MicroAveragedScores ==
    eval_pc = "returned" =>
        /\ IsQuotient(scores.precision, TotalTp, TotalTp + TotalFp)
        /\ IsQuotient(scores.recall, TotalTp, TotalTp + TotalFn)
        \* 2pr/(p+r) for p = tp/(tp+fp), r = tp/(tp+fn)
        /\ IF TotalTp = 0 THEN scores.fscore[1] = 0
           ELSE IsQuotient(scores.fscore,
                           2 * TotalTp * TotalTp,
                           TotalTp * (TotalTp + TotalFn)
                             + TotalTp * (TotalTp + TotalFp))
        /\ (test_instances = <<ParisInstance>>
              /\ nlp["Paris Berlin"] = { <<0, 5, "LOC">> })
             => /\ <<TotalTp, TotalFp, TotalFn>> = <<1, 0, 1>>
                /\ scores = [precision |-> <<1, 1>>, recall |-> <<1, 2>>,
                             fscore |-> <<2, 3>>]
        /\ (\A k \in 1..Len(test_instances) :
                PredictedSet(k) = {} /\ GoldSet(k) = {})
             => scores = [precision |-> Zero, recall |-> Zero, fscore |-> Zero]

\* evaluate has returned for {Paris_LOC} against {Paris_LOC, Berlin_LOC}
C5_Witness ==
    /\ eval_pc = "returned"
    /\ test_instances = <<ParisInstance>>
    /\ nlp["Paris Berlin"] = { <<0, 5, "LOC">> }
    /\ scores.fscore = <<2, 3>>

(***************************************************************************)
(* Claims about the trainer.                                               *)
(***************************************************************************)
\* the events of one kind in the log
Events(kind) == { k \in 1..Len(tr_log) : tr_log[k][1] = kind }

\* the F-score evaluate gave after epoch e (epochs count from 0, as in the
\* code) and the epochs after which a checkpoint archive was written
ScoreOf(e) ==
    tr_log[CHOOSE k \in Events("evaluate") : tr_log[k][2] = e][3]
SavedEpochs ==
    { e \in 0..MaxEpochs : \E z \in disk : z[1] = "zip" /\ z[2][2][2] = e }

\* the epochs whose loop body has run to its end
Completed == 0..(epoch - 1)

\* the best F-score before epoch e: 0.0, or the highest score of an earlier
\* epoch
BestBefore(e) ==
    LET earlier == {Zero} \cup { ScoreOf(k) : k \in 0..(e - 1) }
    IN CHOOSE m \in earlier : \A x \in earlier : ~RatLess(m, x)

Half       == <<1, 2>>
ThreeFifth == <<3, 5>>
TwoFifth   == <<2, 5>>

\* C1: a checkpoint is saved after an epoch iff the epoch's F-score is
\* strictly greater than the best so far (0.0, then the highest earlier
\* score); every save sets the best-so-far to the saved score; for the scores
\* [0.5, 0.5, 0.6, 0.4] the 1st and the 3rd epoch save, and no other.
C1_StrictImprovementOnly ==
    tr_pc \in {"epoch", "batches", "checkpoint", "done", "raised"} =>
        /\ \A e \in Completed :
              /\ (e \in SavedEpochs) <=> RatLess(BestBefore(e), ScoreOf(e))
              /\ (e \in SavedEpochs) =>
                    Zip(ModelPath(output_model_dir, e, ScoreOf(e))) \in disk
        /\ best_fscore = BestBefore(epoch)
        /\ ( /\ tr_pc = "done"
             /\ [e \in 1..epoch |-> ScoreOf(e - 1)]
                   = <<Half, Half, ThreeFifth, TwoFifth>> )
              => SavedEpochs = {0, 2}

\* a run over the scores [0.5, 0.5, 0.6, 0.4] has ended with its checkpoints
C1_Witness ==
    /\ tr_pc = "done"
    /\ epoch = 4
    /\ [e \in 1..epoch |-> ScoreOf(e - 1)] = <<Half, Half, ThreeFifth, TwoFifth>>
    /\ SavedEpochs = {0, 2}

\* C6: with no output directory, train_nerc_model raises before any work: no
\* nlp.update and no evaluation has run, and the run never ends normally.
C6_NoOutputDirAbortsFirst ==
    output_model_dir = "None" =>
        /\ Events("update") = {}
        /\ Events("evaluate") = {}
        /\ tr_pc /= "done"

\* C8, second part: once _save_model has returned or failed, the uncompressed
\* model directory it wrote under the output directory does not exist.
C8_SaveDirRemoved ==
    tr_pc \in {"epoch", "done", "raised"} =>
        \A z \in disk : z[1] = "dir" => Len(z[2]) = 1

(***************************************************************************)
(* Claims about analyze and about the temporary directories.               *)
(***************************************************************************)
\* the directory load_custom_model unpacks the archive into
UnpackDir == Dir(<<"my_model">>)

\* C8: temporary directories are always removed after use: (1) the directory
\* load_custom_model unpacks the archive into does not exist once analyze
\* has returned or failed, and (2) the uncompressed model directory
\* _save_model writes does not exist once _save_model has returned or failed.
C8_TempDirsRemoved ==
    /\ run_pc \in {"returned", "raised"} => UnpackDir \notin disk
    /\ C8_SaveDirRemoved

\* C8, first part alone
C8_UnpackDirRemoved ==
    run_pc \in {"returned", "raised"} => UnpackDir \notin disk

\* C9 as stated: called with a language outside {en, fr, es}, analyze raises
\* (whatever it raises is taken for the configuration error) and the input
\* file is not opened for reading before.
C9_BadLanguageRaisesFirst ==
    language \in Languages \ DOMAIN LANG_MODELS =>
        /\ ~content_read
        /\ run_pc \notin {"read", "report", "html", "returned"}

\* C9 as amended: the same, for the calls with no custom model; what is
\* raised is the error about the language, or the one about the input file
\* when that file does not exist.
C9_BadLanguageRaisesFirstWithoutCustomModel ==
    (language \in Languages \ DOMAIN LANG_MODELS /\ custom_model = "None") =>
        /\ ~content_read
        /\ run_pc \notin {"read", "report", "html", "returned"}
        /\ run_pc = "raised" =>
              run_error = IF Exists(<<InputFile>>, disk)
                          THEN "Exception: language not valid"
                          ELSE "Exception: input file does not exist"

\* analyze, called on an existing file with the language "de" and no custom
\* model, has raised
C9_Witness ==
    /\ language = "de"
    /\ custom_model = "None"
    /\ Exists(<<InputFile>>, disk)
    /\ run_pc = "raised"
    /\ run_error = "Exception: language not valid"
    /\ ~content_read

(***************************************************************************)
(* More claims about the resolver.                                         *)
(***************************************************************************)
\* out is made of entities of es, in their order
IsSubsequence(out, es) ==
    \E f \in [1..Len(out) -> 1..Len(es)] :
        /\ \A k \in 1..Len(out) : out[k] = es[f[k]]
        /\ \A j, k \in 1..Len(out) : j < k => f[j] < f[k]

Range(q) == { q[k] : k \in 1..Len(q) }

C12_SecondOfPairRemoved ==
    res_pc = "returned" =>
        \A n \in 1..Len(instances) :
            LET es  == Entities(instances[n])
                out == Entities(resolved[n])
            IN Cardinality(Range(es)) = Len(es) =>
                 \A k \in 1..(Len(es) - 1) :
                    es[k][2] >= es[k + 1][1] =>
                        es[k] \in Range(out) /\ es[k + 1] \notin Range(out)

(***************************************************************************)
(* More claims about train_nerc_model.                                     *)
(***************************************************************************)
\* the positions in the log of the events of one kind of epoch e
EventsOf(kind, e) == { k \in Events(kind) : tr_log[k][2] = e }

\* every event at a position of earlier comes before every one of later
Before(earlier, later) == \A j \in earlier : \A k \in later : j < k

\* the order of the calls of a run with an output directory, as far as it has
\* come
C13_EpochOrder ==
    output_model_dir /= "None" =>
        \* shuffle, minibatch, the updates of all batches, evaluate and then
        \* the save, within every epoch
        /\ \A e \in 0..num_epochs :
              /\ Before(Events("begin_training"), EventsOf("shuffle", e))
              /\ Before(EventsOf("shuffle", e), EventsOf("minibatch", e))
              /\ Before(EventsOf("minibatch", e), EventsOf("update", e))
              /\ Before(EventsOf("update", e), EventsOf("evaluate", e))
              /\ Before(EventsOf("evaluate", e), EventsOf("save", e))
              \* one evaluation at most, one exactly for an epoch that is over
              \* and for no epoch beyond num_epochs
              /\ Cardinality(EventsOf("evaluate", e)) <= 1
              /\ e < epoch => Cardinality(EventsOf("evaluate", e)) = 1
              /\ e >= num_epochs => EventsOf("evaluate", e) = {}
              \* the evaluation finds every batch of its epoch updated
              /\ EventsOf("evaluate", e) /= {}
                    => Cardinality(EventsOf("update", e)) = NumBatches(train_size)
              \* no update of a later epoch before the evaluation (there is
              \* one) of this epoch
              /\ \A later \in (e + 1)..num_epochs :
                    /\ Before(EventsOf("evaluate", e), EventsOf("update", later))
                    /\ EventsOf("update", later) /= {}
                          => EventsOf("evaluate", e) /= {}
        \* every event is of an epoch of the run
        /\ \A kind \in {"shuffle", "minibatch", "update", "evaluate", "save"} :
              \A k \in Events(kind) : tr_log[k][2] \in 0..(num_epochs - 1)
        \* the function returns after num_epochs epochs, and not before
        /\ tr_pc = "done" =>
              /\ epoch = num_epochs
              /\ Cardinality(Events("shuffle")) = num_epochs
              /\ Cardinality(Events("evaluate")) = num_epochs
              /\ Cardinality(Events("update")) = num_epochs * NumBatches(train_size)
        \* nothing but an error of the operating system during a save ends the
        \* run otherwise
        /\ tr_pc = "raised" =>
              /\ tr_log[Len(tr_log)] = <<"raise", "OSError">>
              /\ IsNewBest(current_fscore, best_fscore)

\* C13: a run of train_nerc_model with an output directory goes through
\* begin_training, then for each epoch shuffle, minibatch, the updates of all
\* batches, one evaluation and the checkpoint decision, and it comes to its
\* end; it returns after exactly num_epochs epochs whatever the F-scores are,
\* with one evaluation per epoch, made after every update of that epoch and
\* before any update of the next.
C13_EpochStateMachine ==
    /\ []C13_EpochOrder
    /\ (output_model_dir /= "None") ~> (tr_pc \in {"done", "raised"})

\* a run with an output directory has returned after three epochs or more of
\* two batches each, of which one has saved a checkpoint and a later one,
\* with a lower F-score, has not
C13_Witness ==
    /\ tr_pc = "done"
    /\ output_model_dir = "models"
    /\ num_epochs >= 3
    /\ NumBatches(train_size) = 2
    /\ \E e \in SavedEpochs : \E f \in Completed :
          f > e /\ f \notin SavedEpochs /\ RatLess(ScoreOf(f), ScoreOf(e))

=============================================================================
